---- MODULE Spec2Model ----
(***************************************************************************)
(* Model of scripts/download_dukascopy_xauusd_ticks.py: the tick download  *)
(* pipeline (date validation, per-day resume check, bounded parallel hour  *)
(* fetch with retry, .bi5 decoding, write-to-temporary-then-rename).       *)
(*                                                                         *)
(* Time is counted in whole hours since 2025-01-01T00:00Z; a datetime is   *)
(* that hour count and a timestamp is in milliseconds since the same       *)
(* instant (TLC integers are 32 bits wide, so the 1970 epoch is not used;  *)
(* the float arithmetic of line 149 is done on the Unix time all the same).*)
(* A day is scaled down to HoursPerDay hours.                              *)
(***************************************************************************)
EXTENDS Integers, Sequences, FiniteSets, Bags, TLC

(* ---------------------------- bounds ---------------------------------- *)
MaxDays == 2          \* calendar days a date argument may name
HoursPerDay == 2      \* hours of a (scaled) day; 24 in the program
MaxRetries == 1       \* largest value of --retries
MaxConcurrency == 2   \* largest value of --concurrency
MaxRuns == 2          \* successive runs of the script on one output dir

(* ------------------------ program constants --------------------------- *)
RECORD_SIZE == 20
MAX_MS_PER_HOUR == 3600000
SCALE_FACTOR_DEFAULT == 1000
BACKOFF_INITIAL_MS == 500
BACKOFF_CAP_MS == 8000

ValueError == 0 - 1

(* ------------------------- date arguments ----------------------------- *)
\* A date argument is the text "2025-mm-dd", kept as the pair <<mm, dd>>.
DaysInMonth(m) ==
    IF m = 2 THEN 28
    ELSE IF m \in {4, 6, 9, 11} THEN 30
    ELSE 31

RECURSIVE DaysBefore(_)
DaysBefore(m) == IF m <= 1 THEN 0 ELSE DaysInMonth(m - 1) + DaysBefore(m - 1)

\* datetime.strptime(text, "%Y-%m-%d"): ValueError, or the day start (in hours)
strptime(a) ==
    IF a[1] \in 1..12 /\ a[2] >= 1 /\ a[2] <= DaysInMonth(a[1])
    THEN (DaysBefore(a[1]) + a[2] - 1) * HoursPerDay
    ELSE ValueError

DateArgs == {<<1, d>> : d \in 1..MaxDays} \cup {<<1, 32>>, <<13, 1>>}

\* lines 206-215 without the comparison of line 213
ValidateDatesNoOrder(s, e) ==
    IF strptime(s) = ValueError \/ strptime(e) = ValueError THEN "bad_format"
    ELSE "ok"

\* lines 206-215: the value main() exits with, or "ok"
ValidateDates(s, e) ==
    IF strptime(s) = ValueError \/ strptime(e) = ValueError THEN "bad_format"
    ELSE IF strptime(s) > strptime(e) THEN "start_after_end"
    ELSE "ok"

(* -------------------------- hour enumeration -------------------------- *)
\* lines 62-66 with the test of line 64 letting the end through
RECURSIVE iterate_hours_inclusive(_, _)
iterate_hours_inclusive(start, end) ==
    IF start <= end THEN <<start>> \o iterate_hours_inclusive(start + 1, end) ELSE <<>>

\* lines 62-66
RECURSIVE iterate_hours(_, _)
iterate_hours(start, end) ==
    IF start < end THEN <<start>> \o iterate_hours(start + 1, end) ELSE <<>>

Range(s) == {s[i] : i \in 1..Len(s)}

(* ---------------------------- .bi5 records ---------------------------- *)
Pow256(k) == IF k = 0 THEN 1 ELSE IF k = 1 THEN 256 ELSE IF k = 2 THEN 65536 ELSE 16777216

\* struct.pack(">I", x)
PackU32(x) == << (x \div Pow256(3)) % 256, (x \div Pow256(2)) % 256,
                 (x \div Pow256(1)) % 256, x % 256 >>

\* struct.unpack_from(">I", raw, off) with off counted from 0
UnpackU32(raw, off) ==
    raw[off + 1] * Pow256(3) + raw[off + 2] * Pow256(2) + raw[off + 3] * Pow256(1) + raw[off + 4]

PackRecord(r) ==
    PackU32(r[1]) \o PackU32(r[2]) \o PackU32(r[3]) \o PackU32(r[4]) \o PackU32(r[5])

RECURSIVE PackRecords(_)
PackRecords(rs) == IF rs = <<>> THEN <<>> ELSE PackRecord(Head(rs)) \o PackRecords(Tail(rs))

\* A payload is the LZMA stream of a byte string; the stream either
\* decompresses to its content or is malformed.
Compress(bytes) == [empty |-> FALSE, raw |-> bytes, valid |-> TRUE]
CorruptPayload == [empty |-> FALSE, raw |-> <<>>, valid |-> FALSE]
EmptyPayload == [empty |-> TRUE, raw |-> <<>>, valid |-> FALSE]

\* lzma.decompress(payload) raises LZMAError, or returns the content
lzma_raises(payload) == ~payload.valid
lzma_decompress(payload) == payload.raw

\* f"{x:.3f}" of raw / scale_factor, as a count of thousandths
\* (round half to even on the exact quotient)
Format3(raw, scale) ==
    LET n == raw * 1000
        q == n \div scale
        r == n % scale
    IN  IF 2 * r > scale THEN q + 1
        ELSE IF 2 * r < scale THEN q
        ELSE IF q % 2 = 0 THEN q ELSE q + 1

(* --------------------------- tick timestamps -------------------------- *)
\* Unix time, in seconds, of 2025-01-01T00:00Z, the hour 0 of main()'s dates
EPOCH_2025_S == 1735689600

RECURSIVE Pow2(_)
Pow2(n) == IF n = 0 THEN 1 ELSE 2 * Pow2(n - 1)

\* n / d rounded to the nearest integer, ties to even (IEEE 754 default)
RoundHalfEven(n, d) ==
    LET q == n \div d
        r == n % d
    IN  IF 2 * r > d THEN q + 1
        ELSE IF 2 * r < d THEN q
        ELSE IF q % 2 = 0 THEN q ELSE q + 1

\* Bits a double has after the binary point for a count of seconds s
\* (2^29 <= s < 2^31: 1987 to 2038)
SecondsFracBits(s) == IF s < 1073741824 THEN 23 ELSE 22

\* The same for the count of milliseconds 1000 * s + r (2^40 = 1099511627776)
MillisFracBits(s, r) ==
    IF s > 1099511627 \/ (s = 1099511627 /\ r >= 776) THEN 12
    ELSE IF s > 549755813 \/ (s = 549755813 /\ r >= 888) THEN 13
    ELSE 14

\* line 149: the last three digits of int(dt.timestamp() * 1000) for the
\* datetime s seconds and r milliseconds after 1970: timestamp() is the double
\* nearest to s + r/1000, the product with 1000 is rounded to a double again,
\* and int() drops what is left after the point
FloatMs(s, r) ==
    LET fb == SecondsFracBits(s)
        k == RoundHalfEven(r * Pow2(fb - 3), 125)
        gb == MillisFracBits(s, r)
        q == RoundHalfEven(125 * k, Pow2(fb - 3 - gb))
    IN  q \div Pow2(gb)

\* line 149 as exact arithmetic
exact_timestamp_ms(epoch_s, hour, ms_offset) == hour * MAX_MS_PER_HOUR + ms_offset

\* line 149: ts_ms of the record at ms_offset in the hour that starts hour
\* hours after the instant epoch_s of Unix time, counted from that instant
timestamp_ms(epoch_s, hour, ms_offset) ==
    LET s == epoch_s + hour * 3600 + (ms_offset \div 1000)
    IN  (hour * 3600 + (ms_offset \div 1000)) * 1000 + FloatMs(s, ms_offset % 1000)

(* ------------------------------ parse_ticks --------------------------- *)
\* lines 141-152: the ticks of the records from byte offset off on
RECURSIVE ParseAt(_, _, _, _, _)
ParseAt(epoch_s, hour, raw, off, scale) ==
    IF off >= Len(raw) THEN <<>>
    ELSE LET ms_offset == UnpackU32(raw, off)
             ask_raw == UnpackU32(raw, off + 4)
             bid_raw == UnpackU32(raw, off + 8)
             rest == ParseAt(epoch_s, hour, raw, off + RECORD_SIZE, scale)
         IN  IF ms_offset >= MAX_MS_PER_HOUR THEN rest
             ELSE << [ask |-> [raw |-> ask_raw, scale |-> scale],
                      bid |-> [raw |-> bid_raw, scale |-> scale],
                      ts_ms |-> timestamp_ms(epoch_s, hour, ms_offset)] >> \o rest

\* lines 128-152 without the try of lines 131-135
ConsumeUncaught(epoch_s, hour, payload, scale) ==
    IF payload.empty THEN [raised |-> FALSE, ticks |-> <<>>]
    ELSE IF lzma_raises(payload) THEN [raised |-> TRUE, ticks |-> <<>>]
    ELSE IF Len(lzma_decompress(payload)) % RECORD_SIZE # 0
    THEN [raised |-> FALSE, ticks |-> <<>>]
    ELSE [raised |-> FALSE,
          ticks |-> ParseAt(epoch_s, hour, lzma_decompress(payload), 0, scale)]

\* lines 128-152 without the length test of lines 137-139, the whole leading
\* records being parsed
ConsumeUnaligned(epoch_s, hour, payload, scale) ==
    IF payload.empty THEN [raised |-> FALSE, ticks |-> <<>>]
    ELSE IF lzma_raises(payload) THEN [raised |-> FALSE, ticks |-> <<>>]
    ELSE LET raw == lzma_decompress(payload)
             whole == SubSeq(raw, 1, (Len(raw) \div RECORD_SIZE) * RECORD_SIZE)
         IN  [raised |-> FALSE, ticks |-> ParseAt(epoch_s, hour, whole, 0, scale)]

\* lines 124-152: what draining parse_ticks gives, an exception or the ticks
Consume(epoch_s, hour, payload, scale) ==
    IF payload.empty THEN [raised |-> FALSE, ticks |-> <<>>]
    ELSE IF lzma_raises(payload) THEN [raised |-> FALSE, ticks |-> <<>>]
    ELSE IF Len(lzma_decompress(payload)) % RECORD_SIZE # 0
    THEN [raised |-> FALSE, ticks |-> <<>>]
    ELSE [raised |-> FALSE,
          ticks |-> ParseAt(epoch_s, hour, lzma_decompress(payload), 0, scale)]

\* parse_ticks for an hour of main()'s dates, which are dates of 2025
ParseFrom(hour, raw, off, scale) == ParseAt(EPOCH_2025_S, hour, raw, off, scale)

parse_ticks(hour, payload, scale) == Consume(EPOCH_2025_S, hour, payload, scale).ticks

(* ------------------------------ the feed ------------------------------ *)
\* What the feed holds for an hour when it has data: three records, the
\* second out of the hour's range, the offsets not in ascending order.
FeedRecords(h) ==
    << <<1500, 265432 + h, 265400 + h, 7, 0>>,
       <<MAX_MS_PER_HOUR, 1, 1, 0, 0>>,
       <<250, 265433 + h, 265401 + h, 3, 0>> >>

GoodPayload(h) == Compress(PackRecords(FeedRecords(h)))
MisalignedPayload == Compress(<<0, 0, 0>>)

\* Bodies a 200 answer may carry
FeedBodies(h) == {GoodPayload(h)}

\* HTTP error codes the feed may answer with, besides a transport error
HttpErrorCodes == {400, 403, 404, 500, 503, 599}

Answers(h) ==
    {[body |-> b, code |-> 200, kind |-> "ok"] : b \in FeedBodies(h)}
    \cup {[body |-> EmptyPayload, code |-> c, kind |-> "http_error"] : c \in HttpErrorCodes}
    \cup {[body |-> EmptyPayload, code |-> 0, kind |-> "url_error"]}

\* The kind of an answer, as the feed's protocol defines it
AnswerClass(ans) ==
    IF ans.kind = "ok" THEN "ok"
    ELSE IF ans.kind = "url_error" THEN "transient"
    ELSE IF ans.code = 404 THEN "not_found"
    ELSE IF ans.code >= 500 /\ ans.code <= 599 THEN "transient"
    ELSE "client_error"

(* ---------------------------- download_hour --------------------------- *)
\* lines 91-113 with the 404 test of line 98 made only on the first attempt
Handle404FirstOnly(ans, attempt, rt) ==
    IF ans.kind = "ok" THEN "return_body"
    ELSE IF ans.kind = "http_error" THEN
        IF ans.code = 404 /\ attempt = 0 THEN "return_empty"
        ELSE IF 500 <= ans.code /\ ans.code < 600 /\ attempt < rt THEN "retry"
        ELSE "raise"
    ELSE IF attempt < rt THEN "retry"
    ELSE "raise"

\* lines 91-113 with every HTTP error but 404 retried (line 101 without its
\* test of the code)
HandleRetriesAnyCode(ans, attempt, rt) ==
    IF ans.kind = "ok" THEN "return_body"
    ELSE IF ans.kind = "http_error" THEN
        IF ans.code = 404 THEN "return_empty"
        ELSE IF attempt < rt THEN "retry"
        ELSE "raise"
    ELSE IF attempt < rt THEN "retry"
    ELSE "raise"

\* lines 91-113 with the tests of lines 101 and 108 letting attempt = retries
\* through
HandleOneMoreRetry(ans, attempt, rt) ==
    IF ans.kind = "ok" THEN "return_body"
    ELSE IF ans.kind = "http_error" THEN
        IF ans.code = 404 THEN "return_empty"
        ELSE IF 500 <= ans.code /\ ans.code < 600 /\ attempt <= rt THEN "retry"
        ELSE "raise"
    ELSE IF attempt <= rt THEN "retry"
    ELSE "raise"

\* lines 91-113: what one pass of the loop does with the answer
Handle(ans, attempt, rt) ==
    IF ans.kind = "ok" THEN "return_body"
    ELSE IF ans.kind = "http_error" THEN
        IF ans.code = 404 THEN "return_empty"
        ELSE IF 500 <= ans.code /\ ans.code < 600 /\ attempt < rt THEN "retry"
        ELSE "raise"
    ELSE IF attempt < rt THEN "retry"
    ELSE "raise"

\* lines 104, 111 without min()
NextBackoffUncapped(b) == b * 2

\* lines 104, 111
NextBackoff(b) == IF b * 2 < BACKOFF_CAP_MS THEN b * 2 ELSE BACKOFF_CAP_MS

\* line 249 without max(): a pool as large as the day
MaxWorkersUnbounded(c) == HoursPerDay

\* line 249
MaxWorkers(c) == IF c > 1 THEN c ELSE 1

(* ------------------------------- files -------------------------------- *)
NoFile == [complete |-> FALSE, exists |-> FALSE, rows |-> <<>>]
Header == <<"timestamp", "askPrice", "bidPrice">>

\* lines 165, 179: one row of a text table
Row(t) == <<t.ts_ms, Format3(t.ask.raw, t.ask.scale), Format3(t.bid.raw, t.bid.scale)>>

Rows(ticks) == [i \in 1..Len(ticks) |-> Row(ticks[i])]

\* line 239 with the flag read the wrong way round
ShouldSkipInverted(exists, frc) == exists /\ frc

\* line 239
ShouldSkip(exists, frc) == exists /\ ~frc

\* line 287
CleanupRemoves(tmp_exists, final_exists) == tmp_exists /\ ~final_exists

\* sorted(keys)
RECURSIVE Sorted(_)
Sorted(S) ==
    IF S = {} THEN <<>>
    ELSE LET m == CHOOSE x \in S : \A y \in S : x <= y
         IN  <<m>> \o Sorted(S \ {m})

(* ------------------------------- state -------------------------------- *)
VARIABLES
    run,            \* number of the current run of the script
    start_date,     \* args.start_date
    end_date,       \* args.end_date
    force,          \* args.force
    concurrency,    \* args.concurrency
    retries,        \* args.retries
    format,         \* args.format
    pd,             \* the import of line 29 succeeded (pd is not None)
    pc,             \* position of main()
    exit_status,    \* process exit status once main() has ended (-1 before)
    stderr,         \* bag of the lines on the error stream since the current day began
    dir_exists,     \* the output directory exists
    mkdirs,         \* calls of ensure_output_dir in the current run
    final,          \* day start -> file at daily_file
    tmp,            \* day start -> file at tmp_path
    day_start,      \* main's day_start
    end_inclusive,  \* main's end_inclusive
    total_days,
    total_ticks,
    task,           \* hour -> the future of download_hour for that hour
    hour_payloads,  \* main's dict hour -> payload
    todo,           \* hours day_ticks_iter has still to yield
    day_count,      \* rows counted by the writer
    failed,         \* an exception of the write is propagating
    requested,      \* hours a request was sent for in the current run
    final0,         \* the files at the final paths when the current run began
    dir0,           \* whether the output directory existed when the run began
    seen,           \* day start -> the day's two files when line 239 looked
    prev,           \* the dates of the previous run if it ran to its end
    input,          \* the arguments of a function that is run on its own
    output          \* what that function returned, once it has run

vars == <<run, start_date, end_date, force, concurrency, retries, format, pd, pc, exit_status,
          stderr, dir_exists, mkdirs, final, tmp, day_start, end_inclusive,
          total_days, total_ticks, task, hour_payloads, todo, day_count, failed,
          requested, final0, dir0, seen, prev, input, output>>

argVars == <<start_date, end_date, force, concurrency, retries, format, pd>>
fileVars == <<dir_exists, final, tmp>>
dayVars == <<day_start, end_inclusive, total_days, total_ticks>>
writeVars == <<todo, day_count, failed>>

DayStarts == {(d - 1) * HoursPerDay : d \in 1..MaxDays}
AllHours == 0..(MaxDays * HoursPerDay - 1)
RetryArgs == {MaxRetries}
\* line 55: the choices of --format
Formats == {"csv", "csv.gz", "parquet"}
ConcurrencyArgs == {0, MaxConcurrency}

day_end == day_start + HoursPerDay
DayOf(h) == (h \div HoursPerDay) * HoursPerDay
\* A future: st is its progress, attempt and backoff are download_hour's
\* locals while it runs, raised and body its outcome, last the kind of the
\* last answer the feed gave it
NoTask == [attempt |-> 0, backoff |-> BACKOFF_INITIAL_MS, body |-> EmptyPayload,
           last |-> "none", raised |-> FALSE, st |-> "none"]
NoTasks == [h \in {} |-> NoTask]

NoneSeen == [d \in {} |-> [final |-> NoFile, tmp |-> NoFile]]
\* No function is run on its own while main() runs
NoCall == [fn |-> "none"]
NoPrev == [end |-> <<0, 0>>, finished |-> FALSE, start |-> <<0, 0>>]

Init ==
    /\ run = 1
    /\ start_date \in DateArgs
    /\ end_date \in DateArgs
    /\ force \in BOOLEAN
    /\ concurrency \in ConcurrencyArgs
    /\ retries \in RetryArgs
    /\ format = "csv"
    /\ pd = TRUE
    /\ pc = "validate"
    /\ exit_status = 0 - 1
    /\ stderr = EmptyBag
    /\ dir_exists = FALSE
    /\ mkdirs = 0
    /\ final = [d \in DayStarts |-> NoFile]
    /\ tmp = [d \in DayStarts |-> NoFile]
    /\ day_start = 0
    /\ end_inclusive = 0
    /\ total_days = 0
    /\ total_ticks = 0
    /\ task = NoTasks
    /\ hour_payloads = NoTasks
    /\ todo = <<>>
    /\ day_count = 0
    /\ failed = FALSE
    /\ requested = {}
    /\ final0 = [d \in DayStarts |-> NoFile]
    /\ dir0 = FALSE
    /\ seen = NoneSeen
    /\ prev = NoPrev
    /\ input = NoCall
    /\ output = NoCall

(* ------------------------------- main() ------------------------------- *)
\* lines 205-217, 222-226
Validate ==
    /\ pc = "validate"
    /\ IF ValidateDates(start_date, end_date) = "ok"
       THEN /\ pc' = "mkdir"
            /\ day_start' = strptime(start_date)
            /\ end_inclusive' = strptime(end_date) + HoursPerDay
            /\ UNCHANGED <<stderr, exit_status>>
       ELSE /\ pc' = "exit"
            /\ stderr' = stderr (+) SetToBag({<<ValidateDates(start_date, end_date), 0>>})
            /\ exit_status' = 1
            /\ UNCHANGED <<day_start, end_inclusive>>
    /\ UNCHANGED <<run, argVars, fileVars, mkdirs, total_days, total_ticks, task,
                   hour_payloads, writeVars, requested, final0, dir0, seen, prev, input, output>>

\* lines 219-220
EnsureOutputDir ==
    /\ pc = "mkdir"
    /\ dir_exists' = TRUE
    /\ mkdirs' = mkdirs + 1
    /\ pc' = "day_loop"
    /\ UNCHANGED <<run, argVars, exit_status, stderr, final, tmp, dayVars, task,
                   hour_payloads, writeVars, requested, final0, dir0, seen, prev, input, output>>

\* line 239 has looked at the day's final path
Looked(sn, d, final_file, tmp_file) ==
    [e \in DOMAIN sn \cup {d} |->
        IF e = d THEN [final |-> final_file, tmp |-> tmp_file] ELSE sn[e]]

\* lines 227-243 without the increment of line 241
SkipDayUncounted ==
    /\ pc = "day_loop"
    /\ day_start < end_inclusive
    /\ ShouldSkip(final[day_start].exists, force)
    /\ day_start' = day_end
    /\ seen' = Looked(seen, day_start, final[day_start], tmp[day_start])
    /\ UNCHANGED <<run, argVars, pc, exit_status, stderr, fileVars, mkdirs,
                   end_inclusive, total_days, total_ticks, task, hour_payloads, writeVars,
                   requested, final0, dir0, prev, input, output>>

\* lines 227-243: the day's file exists and --force is off
SkipDay ==
    /\ pc = "day_loop"
    /\ day_start < end_inclusive
    /\ ShouldSkip(final[day_start].exists, force)
    /\ total_days' = total_days + 1
    /\ day_start' = day_end
    /\ seen' = Looked(seen, day_start, final[day_start], tmp[day_start])
    /\ UNCHANGED <<run, argVars, pc, exit_status, stderr, fileVars, mkdirs,
                   end_inclusive, total_ticks, task, hour_payloads, writeVars,
                   requested, final0, dir0, prev, input, output>>

\* lines 227-252: the day is to be downloaded; every hour is submitted
SubmitDay ==
    /\ pc = "day_loop"
    /\ day_start < end_inclusive
    /\ ~ShouldSkip(final[day_start].exists, force)
    /\ task' = [h \in Range(iterate_hours(day_start, day_end)) |->
                  [NoTask EXCEPT !.st = "queued"]]
    /\ hour_payloads' = NoTasks
    /\ stderr' = EmptyBag
    /\ pc' = "collect"
    /\ seen' = Looked(seen, day_start, final[day_start], tmp[day_start])
    /\ UNCHANGED <<run, argVars, exit_status, fileVars, mkdirs, dayVars,
                   writeVars, requested, final0, dir0, prev, input, output>>

\* line 297: the totals are printed and the process ends
Finish ==
    /\ pc = "day_loop"
    /\ ~(day_start < end_inclusive)
    /\ pc' = "finished"
    /\ exit_status' = 0
    /\ task' = NoTasks
    /\ hour_payloads' = NoTasks
    /\ UNCHANGED <<run, argVars, stderr, fileVars, mkdirs, dayVars,
                   writeVars, requested, final0, dir0, seen, prev, input, output>>

(* --------------------------- the worker pool -------------------------- *)
Queued == {h \in DOMAIN task : task[h].st = "queued"}
Running == {h \in DOMAIN task : task[h].st = "running"}

\* A free worker of the pool takes the oldest queued call (line 251)
StartTask(h) ==
    /\ pc = "collect"
    /\ h \in Queued
    /\ \A g \in Queued : h <= g
    /\ Cardinality(Running) < MaxWorkers(concurrency)
    /\ task' = [task EXCEPT ![h].st = "running"]
    /\ UNCHANGED <<run, argVars, pc, exit_status, stderr, fileVars, mkdirs, dayVars,
                   hour_payloads, writeVars, requested, final0, dir0, seen, prev, input, output>>

\* lines 253-259 without the assignment of line 259
CollectedDropsFailed(hp, h, fut) ==
    IF fut.raised THEN hp
    ELSE [g \in DOMAIN hp \cup {h} |-> IF g # h THEN hp[g] ELSE fut.body]

\* lines 253-259: the loop body of main() for a future that has ended
Collected(hp, h, fut) ==
    [g \in DOMAIN hp \cup {h} |->
        IF g # h THEN hp[g]
        ELSE IF fut.raised THEN EmptyPayload ELSE fut.body]

Reported(err, h, fut) ==
    IF fut.raised THEN err (+) SetToBag({<<"Failed", h>>}) ELSE err

\* lines 91-113: what download_hour has become after one more answer
AfterAnswer(t, ans, rt) ==
    LET act == Handle(ans, t.attempt, rt)
    IN  IF act = "return_body"
        THEN [NoTask EXCEPT !.st = "done", !.body = ans.body, !.last = AnswerClass(ans)]
        ELSE IF act = "return_empty"
        THEN [NoTask EXCEPT !.st = "done", !.last = AnswerClass(ans)]
        ELSE IF act = "retry"
        THEN [t EXCEPT !.attempt = t.attempt + 1, !.backoff = NextBackoff(t.backoff),
                       !.last = AnswerClass(ans)]
        ELSE [NoTask EXCEPT !.st = "done", !.raised = TRUE, !.last = AnswerClass(ans)]

\* lines 91-113 and 253-259: one request of download_hour and what the answer
\* leads to.  When the call ends, as_completed hands the future to the loop
\* body of main(), which touches nothing a worker reads: its two assignments
\* are taken in the same step.
Request(h, ans) ==
    /\ pc = "collect"
    /\ h \in Running
    /\ requested' = requested \cup {h}
    /\ LET fut == AfterAnswer(task[h], ans, retries)
       IN  /\ task' = [task EXCEPT ![h] = fut]
           /\ IF fut.st = "done"
              THEN /\ hour_payloads' = Collected(hour_payloads, h, fut)
                   /\ stderr' = Reported(stderr, h, fut)
              ELSE UNCHANGED <<hour_payloads, stderr>>
    /\ UNCHANGED <<run, argVars, pc, exit_status, fileVars, mkdirs, dayVars,
                   writeVars, final0, dir0, seen, prev, input, output>>

\* line 249 with the pool left as soon as one future has been handed over
JoinPoolFirstResult ==
    /\ pc = "collect"
    /\ \E h \in DOMAIN task : task[h].st = "done"
    /\ pc' = "write_open"
    /\ UNCHANGED <<run, argVars, exit_status, stderr, fileVars, mkdirs, dayVars, task,
                   hour_payloads, writeVars, requested, final0, dir0, seen, prev, input, output>>

\* line 249: the with block ends once every future has been handed over
JoinPool ==
    /\ pc = "collect"
    /\ \A h \in DOMAIN task : task[h].st = "done"
    /\ pc' = "write_open"
    /\ UNCHANGED <<run, argVars, exit_status, stderr, fileVars, mkdirs, dayVars, task,
                   hour_payloads, writeVars, requested, final0, dir0, seen, prev, input, output>>

(* ------------------------------ the write ----------------------------- *)
\* lines 160-162 with the writer handed daily_file instead of tmp_path
WriteOpenFinalPath ==
    /\ pc = "write_open"
    /\ format \in {"csv", "csv.gz"}
    /\ final' = [final EXCEPT ![day_start] =
                   [complete |-> FALSE, exists |-> TRUE, rows |-> <<Header>>]]
    /\ todo' = Sorted(DOMAIN hour_payloads)
    /\ day_count' = 0
    /\ failed' = FALSE
    /\ pc' = "write_rows"
    /\ UNCHANGED <<run, argVars, exit_status, stderr, dir_exists, tmp, mkdirs,
                   dayVars, task, hour_payloads, requested, final0, dir0, seen, prev, input, output>>

\* lines 160-162, 175-177: the temporary file is created (or truncated),
\* header first
WriteOpen ==
    /\ pc = "write_open"
    /\ format \in {"csv", "csv.gz"}
    /\ tmp' = [tmp EXCEPT ![day_start] =
                 [complete |-> FALSE, exists |-> TRUE, rows |-> <<Header>>]]
    /\ todo' = Sorted(DOMAIN hour_payloads)
    /\ day_count' = 0
    /\ failed' = FALSE
    /\ pc' = "write_rows"
    /\ UNCHANGED <<run, argVars, exit_status, stderr, dir_exists, final, mkdirs,
                   dayVars, task, hour_payloads, requested, final0, dir0, seen, prev, input, output>>

\* lines 163-166 with 263-270: the rows of the next hour
WriteHour ==
    /\ pc = "write_rows"
    /\ todo # <<>>
    /\ LET h == Head(todo)
           ticks == parse_ticks(h, hour_payloads[h], SCALE_FACTOR_DEFAULT)
       IN  /\ tmp' = [tmp EXCEPT ![day_start].rows = @ \o Rows(ticks)]
           /\ day_count' = day_count + Len(ticks)
    /\ todo' = Tail(todo)
    /\ UNCHANGED <<run, argVars, pc, exit_status, stderr, dir_exists, final, mkdirs,
                   dayVars, task, hour_payloads, failed, requested, final0, dir0, seen, prev, input, output>>

\* lines 160, 167: the iterator is exhausted, the file is closed
WriteClose ==
    /\ pc = "write_rows"
    /\ todo = <<>>
    /\ tmp' = [tmp EXCEPT ![day_start].complete = TRUE]
    /\ pc' = "rename"
    /\ UNCHANGED <<run, argVars, exit_status, stderr, dir_exists, final, mkdirs,
                   dayVars, task, hour_payloads, writeVars, requested, final0, dir0, seen, prev, input, output>>

\* lines 285-291: the temporary file as the finally block leaves it
Finally(tmp_file, final_file) ==
    IF CleanupRemoves(tmp_file.exists, final_file.exists) THEN NoFile ELSE tmp_file

\* lines 283-291 with the file name of line 231 built from args.start_date
RenameToStartDate ==
    /\ pc = "rename"
    /\ final' = [final EXCEPT ![strptime(start_date)] = tmp[day_start]]
    /\ tmp' = [tmp EXCEPT ![day_start] = Finally(NoFile, tmp[day_start])]
    /\ pc' = "totals"
    /\ UNCHANGED <<run, argVars, exit_status, stderr, dir_exists, mkdirs, dayVars,
                   task, hour_payloads, writeVars, requested, final0, dir0, seen, prev, input, output>>

\* lines 283-291: the rename, then the finally block
Rename ==
    /\ pc = "rename"
    /\ final' = [final EXCEPT ![day_start] = tmp[day_start]]
    /\ tmp' = [tmp EXCEPT ![day_start] = Finally(NoFile, tmp[day_start])]
    /\ pc' = "totals"
    /\ UNCHANGED <<run, argVars, exit_status, stderr, dir_exists, mkdirs, dayVars,
                   task, hour_payloads, writeVars, requested, final0, dir0, seen, prev, input, output>>

\* lines 276-291 with the rename of line 283 moved into the finally block
WriteFailRenames ==
    /\ pc \in {"write_open", "write_rows", "rename"}
    /\ format = "parquet" => pd
    /\ failed' = TRUE
    /\ final' = [final EXCEPT ![day_start] =
                   IF tmp[day_start].exists THEN tmp[day_start] ELSE @]
    /\ tmp' = [tmp EXCEPT ![day_start] = NoFile]
    /\ pc' = "raised"
    /\ exit_status' = 1
    /\ task' = NoTasks
    /\ hour_payloads' = NoTasks
    /\ todo' = <<>>
    /\ day_count' = 0
    /\ UNCHANGED <<run, argVars, stderr, dir_exists, mkdirs, dayVars,
                   requested, final0, dir0, seen, prev, input, output>>

\* lines 276-291 with the exception of the write caught after the finally
\* block: the driver goes on to line 293
WriteFailSwallowed ==
    /\ pc \in {"write_open", "write_rows", "rename"}
    /\ format = "parquet" => pd
    /\ failed' = TRUE
    /\ tmp' = [tmp EXCEPT ![day_start] = Finally(tmp[day_start], final[day_start])]
    /\ pc' = "totals"
    /\ todo' = <<>>
    /\ day_count' = 0
    /\ UNCHANGED <<run, argVars, exit_status, stderr, dir_exists, final, mkdirs, dayVars,
                   task, hour_payloads, requested, final0, dir0, seen, prev, input, output>>

\* lines 276-291: opening, writing, closing or renaming raises (I/O error);
\* the finally block runs and the exception ends the process.  Without
\* pandas the columnar writer raises before any I/O (WriteParquetMissing).
WriteFail ==
    /\ pc \in {"write_open", "write_rows", "rename"}
    /\ format = "parquet" => pd
    /\ failed' = TRUE
    /\ tmp' = [tmp EXCEPT ![day_start] = Finally(tmp[day_start], final[day_start])]
    /\ pc' = "raised"
    /\ exit_status' = 1
    /\ task' = NoTasks
    /\ hour_payloads' = NoTasks
    /\ todo' = <<>>
    /\ day_count' = 0
    /\ UNCHANGED <<run, argVars, stderr, dir_exists, final, mkdirs, dayVars,
                   requested, final0, dir0, seen, prev, input, output>>

\* lines 293-295
Totals ==
    /\ pc = "totals"
    /\ total_ticks' = total_ticks + day_count
    /\ total_days' = total_days + 1
    /\ day_start' = day_end
    /\ pc' = "day_loop"
    /\ UNCHANGED <<run, argVars, exit_status, stderr, fileVars, mkdirs, end_inclusive,
                   task, hour_payloads, writeVars, requested, final0, dir0, seen, prev, input, output>>

(* ------------------------------ next run ------------------------------ *)
\* The script is started again on the same output directory with the dates s
\* and e and the flag f, and the --concurrency and --retries it had, after a
\* run that got as far as the day loop
StartRunWith(s, e, f) ==
    /\ pc \in {"finished", "raised"}
    /\ run < MaxRuns
    /\ run' = run + 1
    /\ start_date' = s
    /\ end_date' = e
    /\ force' = f
    /\ UNCHANGED <<concurrency, retries, format, pd>>
    /\ pc' = "validate"
    /\ exit_status' = 0 - 1
    /\ stderr' = EmptyBag
    /\ mkdirs' = 0
    /\ day_start' = 0
    /\ end_inclusive' = 0
    /\ total_days' = 0
    /\ total_ticks' = 0
    /\ task' = NoTasks
    /\ hour_payloads' = NoTasks
    /\ todo' = <<>>
    /\ day_count' = 0
    /\ failed' = FALSE
    /\ requested' = {}
    /\ final0' = final
    /\ dir0' = dir_exists
    /\ seen' = NoneSeen
    /\ prev' = IF pc = "finished"
               THEN [end |-> end_date, finished |-> TRUE, start |-> start_date]
               ELSE NoPrev
    /\ UNCHANGED <<fileVars, input, output>>

\* The next run has any dates and --force
StartRun ==
    \E s \in DateArgs : \E e \in DateArgs : \E f \in BOOLEAN : StartRunWith(s, e, f)

\* The next run repeats the dates of a run that reached line 297, without
\* --force
RunAgain == pc = "finished" /\ StartRunWith(start_date, end_date, FALSE)

Next ==
    \/ Validate
    \/ EnsureOutputDir
    \/ SkipDay
    \/ SubmitDay
    \/ Finish
    \/ \E h \in AllHours : StartTask(h)
    \/ \E h \in AllHours : \E ans \in Answers(h) : Request(h, ans)
    \/ JoinPool
    \/ WriteOpen
    \/ WriteHour
    \/ WriteClose
    \/ Rename
    \/ WriteFail
    \/ Totals
    \/ StartRun

Spec == Init /\ [][Next]_vars

TypeOK ==
    /\ run \in 1..MaxRuns
    /\ pc \in {"validate", "mkdir", "day_loop", "collect", "write_open", "write_rows",
               "rename", "totals", "exit", "finished", "raised"}
    /\ force \in BOOLEAN
    /\ format \in Formats
    /\ pd \in BOOLEAN
    /\ requested \subseteq AllHours

(* ------------------------------ day files ----------------------------- *)
HoursOf(d) == Range(iterate_hours(d, d + HoursPerDay))

RECURSIVE AllRows(_, _)
AllRows(hs, hp) ==
    IF hs = <<>> THEN <<>>
    ELSE Rows(parse_ticks(Head(hs), hp[Head(hs)], SCALE_FACTOR_DEFAULT)) \o AllRows(Tail(hs), hp)

\* The complete day file of a payload mapping: header, then every hour's rows
DayFile(hp) ==
    [complete |-> TRUE, exists |-> TRUE, rows |-> <<Header>> \o AllRows(Sorted(DOMAIN hp), hp)]

(* ------------------- one run on a directory in use -------------------- *)
\* A run from 2025-01-01 to any day, with one worker, on a directory in which
\* each day has its complete file or none
InitTotals ==
    /\ run = 1
    /\ start_date = <<1, 1>>
    /\ end_date \in {<<1, d>> : d \in 1..MaxDays}
    /\ force \in BOOLEAN
    /\ concurrency = 0
    /\ retries \in RetryArgs
    /\ format = "csv"
    /\ pd = TRUE
    /\ pc = "validate"
    /\ exit_status = 0 - 1
    /\ stderr = EmptyBag
    /\ dir_exists = TRUE
    /\ mkdirs = 0
    /\ \E S \in SUBSET DayStarts :
          final = [d \in DayStarts |->
                     IF d \in S THEN DayFile([h \in HoursOf(d) |-> GoodPayload(h)])
                     ELSE NoFile]
    /\ tmp = [d \in DayStarts |-> NoFile]
    /\ day_start = 0
    /\ end_inclusive = 0
    /\ total_days = 0
    /\ total_ticks = 0
    /\ task = NoTasks
    /\ hour_payloads = NoTasks
    /\ todo = <<>>
    /\ day_count = 0
    /\ failed = FALSE
    /\ requested = {}
    /\ final0 = final
    /\ dir0 = TRUE
    /\ seen = NoneSeen
    /\ prev = NoPrev
    /\ input = NoCall
    /\ output = NoCall

NextTotals ==
    \/ Validate
    \/ EnsureOutputDir
    \/ SkipDay
    \/ SubmitDay
    \/ Finish
    \/ \E h \in AllHours : StartTask(h)
    \/ \E h \in AllHours : \E ans \in Answers(h) : Request(h, ans)
    \/ JoinPool
    \/ WriteOpen
    \/ WriteHour
    \/ WriteClose
    \/ Rename
    \/ WriteFail
    \/ Totals

SpecTotals == InitTotals /\ [][NextTotals]_vars

(* --------------------- reruns on a feed without gaps ------------------- *)
\* The feed has data for every hour: it answers with the hour's data or with
\* an error other than 404, so an hour without rows in a day file is an hour
\* whose fetch raised
AnswersNoGap(h) == {ans \in Answers(h) : AnswerClass(ans) # "not_found"}

\* The first run is given one day, on a directory that does not exist
InitResume ==
    /\ Init
    /\ start_date = <<1, 1>>
    /\ end_date = <<1, 1>>

\* The next run repeats the dates of a run that reached line 297, with or
\* without --force
RunAgainAnyForce ==
    /\ pc = "finished"
    /\ \E f \in BOOLEAN : StartRunWith(start_date, end_date, f)

NextResume ==
    \/ Validate
    \/ EnsureOutputDir
    \/ SkipDay
    \/ SubmitDay
    \/ Finish
    \/ \E h \in AllHours : StartTask(h)
    \/ \E h \in AllHours : \E ans \in AnswersNoGap(h) : Request(h, ans)
    \/ JoinPool
    \/ WriteOpen
    \/ WriteHour
    \/ WriteClose
    \/ Rename
    \/ WriteFail
    \/ Totals
    \/ RunAgainAnyForce

SpecResume == InitResume /\ [][NextResume]_vars

(* ------------------------- one day of one run ------------------------- *)
\* The files an earlier run can have left for the day starting at d: a
\* committed file is the complete file of a mapping in which each hour has its
\* data or nothing, and a temporary file is left only next to a committed file
\* (line 287), by a write that failed after the header or at the rename.
OldFiles(d) ==
    {DayFile([h \in HoursOf(d) |-> IF h \in S THEN GoodPayload(h) ELSE EmptyPayload]) :
        S \in SUBSET HoursOf(d)}

StaleTmps(f) ==
    {[complete |-> FALSE, exists |-> TRUE, rows |-> <<Header>>], f}

\* main() has validated the dates of a one-day range and made the directory
InitDay ==
    /\ run = 1
    /\ start_date = <<1, 1>>
    /\ end_date = <<1, 1>>
    /\ force \in BOOLEAN
    /\ concurrency \in ConcurrencyArgs
    /\ retries \in RetryArgs
    /\ format = "csv"
    /\ pd = TRUE
    /\ pc = "day_loop"
    /\ exit_status = 0 - 1
    /\ stderr = EmptyBag
    /\ dir_exists = TRUE
    /\ mkdirs = 1
    /\ \E f \in {NoFile} \cup OldFiles(0) :
          /\ final = [d \in DayStarts |-> IF d = 0 THEN f ELSE NoFile]
          /\ \E t \in (IF f.exists THEN {NoFile} \cup StaleTmps(f) ELSE {NoFile}) :
                tmp = [d \in DayStarts |-> IF d = 0 THEN t ELSE NoFile]
    /\ day_start = strptime(start_date)
    /\ end_inclusive = strptime(end_date) + HoursPerDay
    /\ total_days = 0
    /\ total_ticks = 0
    /\ task = NoTasks
    /\ hour_payloads = NoTasks
    /\ todo = <<>>
    /\ day_count = 0
    /\ failed = FALSE
    /\ requested = {}
    /\ final0 = final
    /\ dir0 = TRUE
    /\ seen = NoneSeen
    /\ prev = NoPrev
    /\ input = NoCall
    /\ output = NoCall

NextDay ==
    \/ SkipDay
    \/ SubmitDay
    \/ Finish
    \/ \E h \in AllHours : StartTask(h)
    \/ \E h \in AllHours : \E ans \in Answers(h) : Request(h, ans)
    \/ JoinPool
    \/ WriteOpen
    \/ WriteHour
    \/ WriteClose
    \/ Rename
    \/ WriteFail
    \/ Totals

SpecDay == InitDay /\ [][NextDay]_vars

(* ---------------------- the pool of one day (245-259) ----------------- *)
\* A day that has no file yet, from its submission to the end of the with
\* block
InitPool ==
    /\ InitDay
    /\ \A d \in DayStarts : ~final[d].exists /\ ~tmp[d].exists

NextPool ==
    \/ SubmitDay
    \/ \E h \in AllHours : StartTask(h)
    \/ \E h \in AllHours : \E ans \in Answers(h) : Request(h, ans)
    \/ JoinPool

\* The pool's threads are scheduled fairly: a free worker takes a queued call
\* (line 251) and a request is answered or times out (line 94)
SpecPool ==
    /\ InitPool
    /\ [][NextPool]_vars
    /\ WF_vars(\E h \in AllHours : StartTask(h))
    /\ WF_vars(\E h \in AllHours : \E ans \in Answers(h) : Request(h, ans))

(* ------------------------- a run and its reruns ------------------------ *)
\* A first run with any arguments on a directory that does not exist and,
\* when it has run to its end, runs that repeat its dates without --force
NextAgain ==
    \/ Validate
    \/ EnsureOutputDir
    \/ SkipDay
    \/ SubmitDay
    \/ Finish
    \/ \E h \in AllHours : StartTask(h)
    \/ \E h \in AllHours : \E ans \in Answers(h) : Request(h, ans)
    \/ JoinPool
    \/ WriteOpen
    \/ WriteHour
    \/ WriteClose
    \/ Rename
    \/ WriteFail
    \/ Totals
    \/ RunAgain

SpecAgain == Init /\ [][NextAgain]_vars

(* ------------------------- the columnar writer ------------------------ *)
\* line 191: one row of the frame, the prices as the floats of the tick
ParquetRow(t) == <<t.ts_ms, t.ask, t.bid>>

RECURSIVE ParquetRows(_, _)
ParquetRows(hs, hp) ==
    IF hs = <<>> THEN <<>>
    ELSE LET ticks == parse_ticks(Head(hs), hp[Head(hs)], SCALE_FACTOR_DEFAULT)
         IN  [i \in 1..Len(ticks) |-> ParquetRow(ticks[i])] \o ParquetRows(Tail(hs), hp)

\* lines 191-198: the file to_parquet writes, its columns then its rows
ParquetFile(hp) ==
    [complete |-> TRUE, exists |-> TRUE,
     rows |-> <<Header>> \o ParquetRows(Sorted(DOMAIN hp), hp)]

\* lines 188-189 and 285-291: pandas is missing, write_day_parquet raises
\* before it reads a tick or touches a path; the finally block runs and the
\* RuntimeError ends the process
WriteParquetMissing ==
    /\ pc = "write_open"
    /\ format = "parquet"
    /\ ~pd
    /\ failed' = TRUE
    /\ stderr' = stderr (+) SetToBag({<<"RuntimeError", 0>>})
    /\ tmp' = [tmp EXCEPT ![day_start] = Finally(tmp[day_start], final[day_start])]
    /\ pc' = "raised"
    /\ exit_status' = 1
    /\ task' = NoTasks
    /\ hour_payloads' = NoTasks
    /\ todo' = <<>>
    /\ day_count' = 0
    /\ UNCHANGED <<run, argVars, dir_exists, final, mkdirs, dayVars,
                   requested, final0, dir0, seen, prev, input, output>>

\* lines 190-199: every tick is read into memory, then the file is written
WriteParquet ==
    /\ pc = "write_open"
    /\ format = "parquet"
    /\ pd
    /\ tmp' = [tmp EXCEPT ![day_start] = ParquetFile(hour_payloads)]
    /\ day_count' = Len(ParquetRows(Sorted(DOMAIN hour_payloads), hour_payloads))
    /\ todo' = <<>>
    /\ failed' = FALSE
    /\ pc' = "rename"
    /\ UNCHANGED <<run, argVars, exit_status, stderr, dir_exists, final, mkdirs,
                   dayVars, task, hour_payloads, requested, final0, dir0, seen, prev, input, output>>

\* lines 195, 198 and 285-291: to_parquet raises with the file begun
WriteParquetFail ==
    /\ pc = "write_open"
    /\ format = "parquet"
    /\ pd
    /\ failed' = TRUE
    /\ tmp' = [tmp EXCEPT ![day_start] =
                 Finally([complete |-> FALSE, exists |-> TRUE, rows |-> <<>>],
                         final[day_start])]
    /\ pc' = "raised"
    /\ exit_status' = 1
    /\ task' = NoTasks
    /\ hour_payloads' = NoTasks
    /\ todo' = <<>>
    /\ day_count' = 0
    /\ UNCHANGED <<run, argVars, stderr, dir_exists, final, mkdirs, dayVars,
                   requested, final0, dir0, seen, prev, input, output>>

\* A run over one day in any format, with or without pandas, on a directory
\* in which the day's file, in that format, is absent or was committed by an
\* earlier run that found data for every hour
InitFormat ==
    /\ run = 1
    /\ start_date = <<1, 1>>
    /\ end_date = <<1, 1>>
    /\ force \in BOOLEAN
    /\ concurrency \in ConcurrencyArgs
    /\ retries \in RetryArgs
    /\ format \in Formats
    /\ pd \in BOOLEAN
    /\ pc = "validate"
    /\ exit_status = 0 - 1
    /\ stderr = EmptyBag
    /\ dir_exists \in BOOLEAN
    /\ mkdirs = 0
    /\ LET full == [h \in HoursOf(0) |-> GoodPayload(h)]
           old == IF format = "parquet" THEN ParquetFile(full) ELSE DayFile(full)
       IN  \E f \in (IF dir_exists THEN {NoFile, old} ELSE {NoFile}) :
              final = [d \in DayStarts |-> IF d = 0 THEN f ELSE NoFile]
    /\ tmp = [d \in DayStarts |-> NoFile]
    /\ day_start = 0
    /\ end_inclusive = 0
    /\ total_days = 0
    /\ total_ticks = 0
    /\ task = NoTasks
    /\ hour_payloads = NoTasks
    /\ todo = <<>>
    /\ day_count = 0
    /\ failed = FALSE
    /\ requested = {}
    /\ final0 = final
    /\ dir0 = dir_exists
    /\ seen = NoneSeen
    /\ prev = NoPrev
    /\ input = NoCall
    /\ output = NoCall

NextFormat ==
    \/ Validate
    \/ EnsureOutputDir
    \/ SkipDay
    \/ SubmitDay
    \/ Finish
    \/ \E h \in AllHours : StartTask(h)
    \/ \E h \in AllHours : \E ans \in Answers(h) : Request(h, ans)
    \/ JoinPool
    \/ WriteOpen
    \/ WriteHour
    \/ WriteClose
    \/ WriteParquetMissing
    \/ WriteParquet
    \/ WriteParquetFail
    \/ Rename
    \/ WriteFail
    \/ Totals

SpecFormat == InitFormat /\ [][NextFormat]_vars

(* --------------------- functions run on their own --------------------- *)
\* main() is not running: its variables keep the values they start with
AtRest ==
    /\ run = 1
    /\ start_date = <<1, 1>>
    /\ end_date = <<1, 1>>
    /\ force = FALSE
    /\ concurrency = MaxConcurrency
    /\ retries = MaxRetries
    /\ format = "csv"
    /\ pd = TRUE
    /\ pc = "validate"
    /\ exit_status = 0 - 1
    /\ stderr = EmptyBag
    /\ dir_exists = FALSE
    /\ mkdirs = 0
    /\ final = [d \in DayStarts |-> NoFile]
    /\ tmp = [d \in DayStarts |-> NoFile]
    /\ day_start = 0
    /\ end_inclusive = 0
    /\ total_days = 0
    /\ total_ticks = 0
    /\ task = NoTasks
    /\ hour_payloads = NoTasks
    /\ todo = <<>>
    /\ day_count = 0
    /\ failed = FALSE
    /\ requested = {}
    /\ final0 = final
    /\ dir0 = FALSE
    /\ seen = NoneSeen
    /\ prev = NoPrev

progVars == <<run, argVars, pc, exit_status, stderr, fileVars, mkdirs, dayVars, task,
              hour_payloads, writeVars, requested, final0, dir0, seen, prev>>

(* ------------------- the assembly of a day (262-270) ------------------ *)
\* A dict is the sequence of its <<key, value>> items in insertion order
DictKeys(d) == [i \in 1..Len(d) |-> d[i][1]]
DictHas(d, k) == \E i \in 1..Len(d) : d[i][1] = k
DictGet(d, k) == d[CHOOSE i \in 1..Len(d) : d[i][1] = k][2]
DictSet(d, k, v) ==
    IF DictHas(d, k)
    THEN [i \in 1..Len(d) |-> IF d[i][1] = k THEN <<k, v>> ELSE d[i]]
    ELSE Append(d, <<k, v>>)

\* line 263 without sorted(): the keys as the dict iterates them
KeysAsInserted(d) == DictKeys(d)

\* line 263: sorted(hour_payloads.keys())
SortedKeys(d) == Sorted(Range(DictKeys(d)))

\* lines 263-270: the ticks of the hours hs, one hour after the other, up to
\* an hour whose parse_ticks raises
RECURSIVE YieldHours(_, _, _)
YieldHours(hs, d, scale) ==
    IF hs = <<>> THEN <<>>
    ELSE LET o == Consume(EPOCH_2025_S, Head(hs), DictGet(d, Head(hs)), scale)
         IN  IF o.raised THEN o.ticks ELSE o.ticks \o YieldHours(Tail(hs), d, scale)

\* lines 263-270: whether an exception leaves the iterator
YieldRaises(hs, d, scale) ==
    \E i \in 1..Len(hs) : Consume(EPOCH_2025_S, hs[i], DictGet(d, hs[i]), scale).raised

day_ticks_iter(d, scale) == YieldHours(SortedKeys(d), d, scale)

\* What a future of an hour may hand over: data, nothing, a stream that does
\* not decompress, a buffer that is not a whole number of records
PayloadsOf(h) == {GoodPayload(h), EmptyPayload, CorruptPayload, MisalignedPayload}

\* The futures of one day hold any such payloads; none has been handed over
InitAssemble ==
    /\ AtRest
    /\ \E d \in DayStarts :
          \E ps \in [HoursOf(d) -> UNION {PayloadsOf(h) : h \in HoursOf(d)}] :
              /\ \A h \in HoursOf(d) : ps[h] \in PayloadsOf(h)
              /\ input = [day |-> d, fn |-> "day_ticks_iter", payloads |-> ps]
    /\ output = [dict |-> <<>>, done |-> FALSE, raised |-> FALSE, ticks |-> <<>>]

\* lines 253-259: as_completed hands over the future of hour h, in any order
Insert(h) ==
    /\ ~output.done
    /\ h \in DOMAIN input.payloads
    /\ ~DictHas(output.dict, h)
    /\ output' = [output EXCEPT !.dict = DictSet(@, h, input.payloads[h])]
    /\ UNCHANGED <<progVars, input>>

\* lines 262-270: with every future handed over, the writer drains the iterator
Assemble ==
    /\ ~output.done
    /\ \A h \in DOMAIN input.payloads : DictHas(output.dict, h)
    /\ output' = [output EXCEPT
                      !.done = TRUE,
                      !.raised = YieldRaises(SortedKeys(output.dict), output.dict,
                                             SCALE_FACTOR_DEFAULT),
                      !.ticks = day_ticks_iter(output.dict, SCALE_FACTOR_DEFAULT)]
    /\ UNCHANGED <<progVars, input>>

NextAssemble ==
    \/ \E h \in AllHours : Insert(h)
    \/ Assemble

SpecAssemble == InitAssemble /\ [][NextAssemble]_vars

(* -------------------- iterate_hours on its own (62-66) ----------------- *)
\* timedelta(days=1), in hours
HOURS_PER_DAY == 24

\* Any two hour-aligned datetimes within MaxDays calendar days of 24 hours
InitHours ==
    /\ AtRest
    /\ \E s \in 0..(MaxDays * HOURS_PER_DAY) : \E e \in 0..(MaxDays * HOURS_PER_DAY) :
          input = [end |-> e, fn |-> "iterate_hours", start |-> s]
    /\ output = [done |-> FALSE, hours |-> <<>>]

\* line 246: list(iterate_hours(start, end))
Enumerate ==
    /\ input.fn = "iterate_hours"
    /\ ~output.done
    /\ output' = [done |-> TRUE, hours |-> iterate_hours(input.start, input.end)]
    /\ UNCHANGED <<progVars, input>>

NextHours == Enumerate

SpecHours == InitHours /\ [][NextHours]_vars

(* -------------------- parse_ticks on its own (124-152) ----------------- *)
MaxRecords == 2       \* records of a decompressed buffer

\* Unix time, in seconds, of 2004-06-01T00:00Z
EPOCH_2004_S == 1086048000

\* Instants the model's hour 0 may stand for
Epochs == {EPOCH_2004_S, EPOCH_2025_S}

\* ms_offset fields a record may carry: the ends of the hour's range, values
\* inside it, the first value outside it
ParseOffsets == {0, 1, 250, MAX_MS_PER_HOUR - 1, MAX_MS_PER_HOUR}

\* Buffers of n records, the i-th with prices and volume that name it
RecordsOf(offs) == [i \in 1..Len(offs) |-> <<offs[i], 265000 + i, 264000 + i, i, 0>>]

RecordLists ==
    UNION {{RecordsOf(offs) : offs \in [1..n -> ParseOffsets]} : n \in 0..MaxRecords}

\* Bytes that may follow the last whole record of a buffer
Trailers == {<<>>, <<0, 0, 0>>}

\* The payload parse_ticks is called with
PayloadOf(in) ==
    IF in.kind = "empty" THEN EmptyPayload
    ELSE IF in.kind = "corrupt" THEN CorruptPayload
    ELSE Compress(PackRecords(in.records) \o in.trailer)

InitParse ==
    /\ AtRest
    /\ \E e \in Epochs : \E h \in AllHours :
          \/ \E k \in {"empty", "corrupt"} :
                input = [epoch_s |-> e, fn |-> "parse_ticks", hour |-> h, kind |-> k,
                         records |-> <<>>, trailer |-> <<>>]
          \/ \E rs \in RecordLists : \E t \in Trailers :
                input = [epoch_s |-> e, fn |-> "parse_ticks", hour |-> h,
                         kind |-> "stream", records |-> rs, trailer |-> t]
    /\ output = [done |-> FALSE, raised |-> FALSE, ticks |-> <<>>]

\* list(parse_ticks(hour, payload, scale_factor))
Parse ==
    /\ input.fn = "parse_ticks"
    /\ ~output.done
    /\ LET o == Consume(input.epoch_s, input.hour, PayloadOf(input), SCALE_FACTOR_DEFAULT)
       IN  output' = [done |-> TRUE, raised |-> o.raised, ticks |-> o.ticks]
    /\ UNCHANGED <<progVars, input>>

NextParse == Parse

SpecParse == InitParse /\ [][NextParse]_vars

(* ------------------- download_hour on its own (83-113) ---------------- *)
MaxRetryArg == 6      \* largest retries argument of a call run on its own

\* lines 91-113: the call's events so far, its locals and how it stands
InitDownload ==
    /\ AtRest
    /\ \E rt \in (0 - 1)..MaxRetryArg : \E h \in AllHours :
          input = [fn |-> "download_hour", hour |-> h, retries |-> rt]
    /\ output = [attempt |-> 0, backoff |-> BACKOFF_INITIAL_MS, events |-> <<>>,
                 st |-> "running"]

RequestEvent == [cause |-> "none", ev |-> "request", ms |-> 0]
SleepEvent(ans, b) == [cause |-> ans.kind, ev |-> "sleep", ms |-> b]

\* lines 91-113: one pass of the loop: the request, the feed's answer, and
\* either the end of the call or the sleep before the next pass
Attempt(ans) ==
    /\ input.fn = "download_hour"
    /\ output.st = "running"
    /\ ans \in Answers(input.hour)
    /\ LET act == Handle(ans, output.attempt, input.retries)
       IN  output' =
             IF act = "retry"
             THEN [attempt |-> output.attempt + 1,
                   backoff |-> NextBackoff(output.backoff),
                   events |-> output.events \o
                                <<RequestEvent, SleepEvent(ans, output.backoff)>>,
                   st |-> "running"]
             ELSE [attempt |-> output.attempt,
                   backoff |-> output.backoff,
                   events |-> Append(output.events, RequestEvent),
                   st |-> IF act = "raise" THEN "raised" ELSE "returned"]
    /\ UNCHANGED <<progVars, input>>

NextDownload == \E ans \in UNION {Answers(h) : h \in AllHours} : Attempt(ans)

SpecDownload == InitDownload /\ [][NextDownload]_vars

(* ------------------------------ properties ---------------------------- *)
\* C1: a day whose file existed when the driver looked (line 239), the force
\* flag being off, gets no request for any of its hours, its final and
\* temporary paths stay as they were and it is never the day being fetched or
\* written; and no hour is requested before its day has been looked at.
C1_ResumeSkip ==
    /\ \A d \in DOMAIN seen :
          (seen[d].final.exists /\ ~force) =>
              /\ HoursOf(d) \cap requested = {}
              /\ final[d] = seen[d].final
              /\ tmp[d] = seen[d].tmp
              /\ (pc \in {"collect", "write_open", "write_rows", "rename", "totals"}
                    => day_start # d)
    /\ \A h \in requested : DayOf(h) \in DOMAIN seen

\* a run without --force has found a day's file, with rows in it, and has
\* gone past that day
C1_Witness ==
    /\ pc = "finished"
    /\ ~force
    /\ \E d \in DOMAIN seen : seen[d].final.exists /\ Len(seen[d].final.rows) > 1

\* The current run repeats the dates of the previous run, which ran to its
\* end, and has no --force
Rerun ==
    /\ run > 1
    /\ prev.finished
    /\ prev.start = start_date
    /\ prev.end = end_date
    /\ ~force

\* C2: a run over the dates of a previous finished run, without the force flag,
\* sends no request and leaves every output file as the previous run left it,
\* whatever the feed would answer.
C2_Idempotent == Rerun => (requested = {} /\ final = final0)

\* the second run over two days has ended
C2_Witness ==
    /\ Rerun
    /\ pc = "finished"
    /\ total_days = 2
    /\ \E d \in DayStarts : Len(final[d].rows) > 1

\* C3: the final path of a day never holds a file whose writing was not
\* completed, and the file a rename has put there is the complete day file of
\* the day's payload mapping, which covers every hour of the day.
C3_AtomicCommit ==
    /\ \A d \in DayStarts : final[d].exists => final[d].complete
    /\ pc = "totals" =>
          /\ DOMAIN hour_payloads = HoursOf(day_start)
          /\ final[day_start] = DayFile(hour_payloads)

\* --force is overwriting a committed file and the write is half done
C3_Witness ==
    /\ pc = "write_rows"
    /\ force
    /\ final[day_start].exists
    /\ tmp[day_start].exists
    /\ ~tmp[day_start].complete
    /\ Len(tmp[day_start].rows) > 1
    /\ todo # <<>>

\* C4: after a failed write the day's final path holds what it held when the
\* driver looked at it: nothing, or the file committed earlier.
C4_FailureKeepsFinal ==
    pc = "raised" => final[day_start] = seen[day_start].final

\* a write with --force over a committed file failed after rows were written
C4_Witness ==
    /\ pc = "raised"
    /\ failed
    /\ seen[day_start].final.exists
    /\ Len(seen[day_start].final.rows) > 1
    /\ tmp[day_start].exists

\* C5: after a failed write and the cleanup, the day has no temporary file.
C5_TmpRemoved ==
    pc = "raised" => ~tmp[day_start].exists

\* What main() keeps of a future: its body, or nothing when it raised
Fetched(h) == IF task[h].raised THEN EmptyPayload ELSE task[h].body

Warnings(h) == CopiesIn(<<"Failed", h>>, stderr)

RECURSIVE KeptRows(_)
KeptRows(hs) ==
    IF hs = <<>> THEN <<>>
    ELSE (IF task[Head(hs)].raised THEN <<>>
          ELSE Rows(parse_ticks(Head(hs), task[Head(hs)].body, SCALE_FACTOR_DEFAULT)))
         \o KeptRows(Tail(hs))

RECURSIVE TicksOf(_)
TicksOf(hs) ==
    IF hs = {} THEN 0
    ELSE LET h == CHOOSE x \in hs : TRUE
         IN  Len(parse_ticks(h, Fetched(h), SCALE_FACTOR_DEFAULT)) + TicksOf(hs \ {h})

PastBarrier == pc \in {"write_open", "write_rows", "rename", "totals"}

\* C6: whatever hours of a day fail, the write starts only when every hour of
\* the day has been requested and its call has ended; a failed hour is in the
\* mapping with an empty payload and has exactly one warning, any other hour
\* is there with the payload its call returned and has no warning; only a
\* failed write ends the run with an error; and the committed day file holds
\* exactly the rows of the hours that did not fail, in hour order.
C6_PartialFailureIsolation ==
    /\ pc = "raised" => failed
    /\ PastBarrier =>
          /\ DOMAIN task = HoursOf(day_start)
          /\ DOMAIN hour_payloads = HoursOf(day_start)
          /\ \A h \in DOMAIN task :
                /\ task[h].st = "done"
                /\ h \in requested
                /\ h \in DOMAIN hour_payloads
                /\ hour_payloads[h] = Fetched(h)
                /\ Warnings(h) = (IF task[h].raised THEN 1 ELSE 0)
    /\ pc = "totals" =>
          /\ final[day_start].exists
          /\ final[day_start].rows = <<Header>> \o KeptRows(Sorted(DOMAIN task))

\* a day file was committed although one hour failed, with another hour's rows
C6_Witness ==
    /\ pc = "totals"
    /\ \E h \in DOMAIN task : task[h].raised /\ task[h].last = "transient"
    /\ \E h \in DOMAIN task : ~task[h].raised /\ task[h].last = "ok"
    /\ Len(final[day_start].rows) > 1

\* C7: a call that got a 404 has ended, without raising, with an empty
\* payload, whatever its attempt counter was; the hour has no warning and
\* decodes to no tick, and the day's tick count is that of the other hours.
C7_NotFoundIsSuccess ==
    /\ \A h \in DOMAIN task :
          task[h].last = "not_found" =>
              /\ task[h].st = "done"
              /\ ~task[h].raised
              /\ task[h].body = EmptyPayload
              /\ h \in DOMAIN hour_payloads
              /\ hour_payloads[h] = EmptyPayload
              /\ parse_ticks(h, hour_payloads[h], SCALE_FACTOR_DEFAULT) = <<>>
              /\ Warnings(h) = 0
    /\ pc \in {"rename", "totals"} =>
          day_count = TicksOf({h \in DOMAIN task : task[h].last # "not_found"})

\* a day with one 404 hour and one hour with data has been committed
C7_Witness ==
    /\ pc = "totals"
    /\ \E h \in DOMAIN task : task[h].last = "not_found"
    /\ \E h \in DOMAIN task : task[h].last = "ok"
    /\ day_count > 0
    /\ stderr = EmptyBag

\* C8 as stated: no day file is committed for a day in which a fetch got an
\* HTTP error that is neither 404 nor 5xx.
C8_FatalFetchAbortsDay ==
    pc = "totals" => \A h \in DOMAIN task : task[h].last # "client_error"

\* C8 amended: a call that got such an error has ended at once by raising, the
\* hour is in the mapping with an empty payload and one warning, the run ends
\* with an error only when the write fails, and the day file that is
\* committed is the complete file of the mapping.
C8_FatalFetchIsIsolated ==
    /\ \A h \in DOMAIN task :
          task[h].last = "client_error" =>
              /\ task[h].st = "done"
              /\ task[h].raised
              /\ h \in DOMAIN hour_payloads
              /\ hour_payloads[h] = EmptyPayload
              /\ Warnings(h) = 1
    /\ pc = "raised" => failed
    /\ (pc = "totals" /\ \E h \in DOMAIN task : task[h].last = "client_error") =>
          final[day_start] = DayFile(hour_payloads)

\* a day file was committed although an hour got a client error
C8_Witness ==
    /\ pc = "totals"
    /\ \E h \in DOMAIN task : task[h].last = "client_error"
    /\ final[day_start].exists

\* C9: a step changes the final path and the temporary path of no day other
\* than the day the driver is at.
C9_PerDayIsolation ==
    [][\A d \in DayStarts :
          d # day_start => (final'[d] = final[d] /\ tmp'[d] = tmp[d])]_vars

\* the write of a later day failed while an earlier day of the same run has
\* its file
C9_Witness ==
    /\ pc = "raised"
    /\ \E d \in DOMAIN seen : d < day_start /\ final[d].exists /\ Len(final[d].rows) > 1

\* C10: dates that do not parse, or a start after the end, end the run at once
\* with status 1 and one line on the error stream, no request sent, no
\* directory made, no file changed; and only such dates end it that way.
C10_BadDatesFailFast ==
    /\ pc = "exit" =>
          /\ ValidateDates(start_date, end_date) # "ok"
          /\ exit_status = 1
          /\ stderr = SetToBag({<<ValidateDates(start_date, end_date), 0>>})
          /\ requested = {}
          /\ mkdirs = 0
          /\ dir_exists = dir0
          /\ final = final0
    /\ ((strptime(start_date) = ValueError \/ strptime(end_date) = ValueError
         \/ strptime(start_date) > strptime(end_date)) /\ pc # "validate")
          => pc = "exit"

\* the run was given a start date after its end date
C10_Witness ==
    /\ pc = "exit"
    /\ strptime(start_date) # ValueError
    /\ strptime(end_date) # ValueError
    /\ strptime(start_date) > strptime(end_date)

\* C11 as stated: a run that selects the columnar format without pandas
\* sends no request for any hour.
C11_ParquetFailsFast == (format = "parquet" /\ ~pd) => requested = {}

\* The in-range offsets of the feed's records of an hour, in record order
InRangeOffsets(h) ==
    LET offs == [i \in 1..Len(FeedRecords(h)) |-> FeedRecords(h)[i][1]]
    IN  SelectSeq(offs, LAMBDA o : o < MAX_MS_PER_HOUR)

RECURSIVE ExpectedStamps(_, _)
ExpectedStamps(hs, ps) ==
    IF hs = <<>> THEN <<>>
    ELSE (IF ps[Head(hs)] = GoodPayload(Head(hs))
          THEN [i \in 1..Len(InRangeOffsets(Head(hs))) |->
                   Head(hs) * MAX_MS_PER_HOUR + InRangeOffsets(Head(hs))[i]]
          ELSE <<>>)
         \o ExpectedStamps(Tail(hs), ps)

\* C12: whatever the order in which the hours were handed over, the ticks
\* the day's iterator yields are those of the hours in ascending order, each
\* hour's ticks in the order of its records (not sorted by time), and the
\* sequence is the one the payload mapping alone determines.
C12_DeterministicOrder ==
    (input.fn = "day_ticks_iter" /\ output.done) =>
        LET hs == iterate_hours(input.day, input.day + HoursPerDay)
        IN  /\ [i \in 1..Len(output.ticks) |-> output.ticks[i].ts_ms]
                  = ExpectedStamps(hs, input.payloads)
            /\ [i \in 1..Len(output.ticks) |-> Row(output.ticks[i])]
                  = AllRows(hs, input.payloads)

\* the hours were handed over latest first, two of them with data, and the
\* iterator has been drained
C12_Witness ==
    /\ input.fn = "day_ticks_iter"
    /\ output.done
    /\ Len(output.dict) >= 2
    /\ \A i \in 1..(Len(output.dict) - 1) : output.dict[i][1] > output.dict[i + 1][1]
    /\ Cardinality({h \in DOMAIN input.payloads : input.payloads[h] = GoodPayload(h)}) >= 2

\* C13: iterate_hours(start, end) yields nothing when end <= start;
\* otherwise it yields start first, then hour starts each exactly 3,600,000
\* ms after the one before, all below end, end - start of them without a
\* duplicate; between two day starts that is 24 for each day.
C13_HourEnumeration ==
    (input.fn = "iterate_hours" /\ output.done) =>
        LET hs == output.hours
            s == input.start
            e == input.end
        IN  /\ e <= s => hs = <<>>
            /\ s < e =>
                  /\ Len(hs) = e - s
                  /\ hs[1] = s
                  /\ \A i \in 1..Len(hs) : hs[i] < e
                  /\ \A i \in 1..(Len(hs) - 1) :
                        hs[i + 1] * MAX_MS_PER_HOUR - hs[i] * MAX_MS_PER_HOUR = 3600000
                  /\ Cardinality(Range(hs)) = Len(hs)
            /\ (s <= e /\ s % HOURS_PER_DAY = 0 /\ e % HOURS_PER_DAY = 0) =>
                  Len(hs) = 24 * ((e - s) \div HOURS_PER_DAY)

\* the hours of two whole days have been enumerated
C13_Witness ==
    /\ input.fn = "iterate_hours"
    /\ output.done
    /\ input.start % HOURS_PER_DAY = 0
    /\ input.end = input.start + 2 * HOURS_PER_DAY
    /\ Len(output.hours) = 48

\* C14: parse_ticks, given a buffer of whole 20-byte records, yields one tick
\* for each record whose ms_offset is below 3,600,000 and none for the others,
\* in buffer order; given a buffer whose length is not a multiple of 20 it
\* yields no tick at all.
InRange(rs) == SelectSeq(rs, LAMBDA r : r[1] < MAX_MS_PER_HOUR)

C14_RecordCount ==
    (input.fn = "parse_ticks" /\ output.done /\ input.kind = "stream") =>
        IF input.trailer = <<>>
        THEN /\ Len(output.ticks) = Len(InRange(input.records))
             /\ \A i \in 1..Len(output.ticks) :
                   /\ output.ticks[i].ask.raw = InRange(input.records)[i][2]
                   /\ output.ticks[i].bid.raw = InRange(input.records)[i][3]
        ELSE output.ticks = <<>>

C14_Witness ==
    /\ input.fn = "parse_ticks" /\ output.done /\ input.kind = "stream"
    /\ input.trailer = <<>>
    /\ Len(input.records) = 2
    /\ input.records[1][1] = MAX_MS_PER_HOUR
    /\ Len(output.ticks) = 1
    /\ output.ticks[1].ask.raw = input.records[2][2]

\* C15: an hour whose payload is empty, does not decompress or has a
\* misaligned length gives no tick and no exception: draining the day's
\* iterator ends normally with the ticks of the other hours.
NoData(p) ==
    p.empty \/ lzma_raises(p) \/ Len(lzma_decompress(p)) % RECORD_SIZE # 0

C15_NoDataIsAValue ==
    (input.fn = "day_ticks_iter" /\ output.done) =>
        /\ ~output.raised
        /\ \A h \in DOMAIN input.payloads :
              NoData(input.payloads[h]) =>
                  \A i \in 1..Len(output.ticks) :
                      output.ticks[i].ts_ms \div MAX_MS_PER_HOUR # h
        /\ \A h \in DOMAIN input.payloads :
              ~NoData(input.payloads[h]) =>
                  \E i \in 1..Len(output.ticks) :
                      output.ticks[i].ts_ms \div MAX_MS_PER_HOUR = h

C15_Witness ==
    /\ input.fn = "day_ticks_iter" /\ output.done
    /\ \E h \in DOMAIN input.payloads : input.payloads[h] = CorruptPayload
    /\ \E h \in DOMAIN input.payloads : input.payloads[h] = GoodPayload(h)
    /\ output.ticks # <<>>

\* C16: every tick parse_ticks emits for hour h has the timestamp
\* (epoch milliseconds of h) + ms_offset of its record.
C16_TimestampIsHourPlusOffset ==
    (input.fn = "parse_ticks" /\ output.done /\ input.kind = "stream"
        /\ input.trailer = <<>>) =>
        /\ Len(output.ticks) = Len(InRange(input.records))
        /\ \A i \in 1..Len(output.ticks) :
              output.ticks[i].ts_ms =
                  exact_timestamp_ms(input.epoch_s, input.hour, InRange(input.records)[i][1])

\* C17: whatever the feed answers, download_hour issues at most retries + 1
\* requests (one when retries <= 0) and has then returned or raised; 5xx
\* answers and transport errors together cause at most retries retries.
Requests(evs) == Len(SelectSeq(evs, LAMBDA e : e.ev = "request"))
Sleeps(evs) == SelectSeq(evs, LAMBDA e : e.ev = "sleep")
Budget(rt) == IF rt > 0 THEN rt ELSE 0

C17_BoundedRetry ==
    input.fn = "download_hour" =>
        /\ Requests(output.events) <= Budget(input.retries) + 1
        /\ Len(Sleeps(output.events)) <= Budget(input.retries)
        /\ Requests(output.events) = Budget(input.retries) + 1 => output.st # "running"
        /\ output.st # "running" => Requests(output.events) >= 1

C17_Witness ==
    /\ input.fn = "download_hour"
    /\ input.retries = 3
    /\ output.st = "raised"
    /\ Requests(output.events) = 4
    /\ \E i \in 1..Len(output.events) : output.events[i].cause = "http_error"
    /\ \E i \in 1..Len(output.events) : output.events[i].cause = "url_error"

\* C18: the wait before the k-th retry of download_hour is
\* min(500 * 2^(k-1), 8000) ms whatever caused the retry, so the waits never
\* decrease and never exceed 8 s, and two requests of a call are always
\* separated by a wait.
C18_BackoffSchedule ==
    input.fn = "download_hour" =>
        LET w == Sleeps(output.events)
        IN  /\ \A k \in 1..Len(w) :
                  w[k].ms = IF k <= 5 THEN BACKOFF_INITIAL_MS * Pow2(k - 1)
                            ELSE BACKOFF_CAP_MS
            /\ \A k \in 1..Len(w) : w[k].ms <= BACKOFF_CAP_MS
            /\ \A k \in 1..(Len(w) - 1) : w[k].ms <= w[k + 1].ms
            /\ \A i \in 1..(Len(output.events) - 1) :
                  output.events[i].ev = "request" => output.events[i + 1].ev = "sleep"

C18_Witness ==
    /\ input.fn = "download_hour"
    /\ Len(Sleeps(output.events)) = 6
    /\ Sleeps(output.events)[5].ms = BACKOFF_CAP_MS
    /\ Sleeps(output.events)[6].ms = BACKOFF_CAP_MS
    /\ Sleeps(output.events)[1].cause = "http_error"
    /\ Sleeps(output.events)[2].cause = "url_error"
    /\ Requests(output.events) = 7

\* C19: a day is decoded and written only once every fetch of the day has
\* ended; the mapping then has one entry for each hour of the day and no
\* other key, and no entry of it was ever assigned twice (the mapping changes
\* only by one new key at the end of that hour's fetch, or by being dropped).
Writing == pc \in {"write_open", "write_rows", "rename"}

BarrierPassed ==
    Writing =>
        /\ \A h \in DOMAIN task : task[h].st = "done"
        /\ DOMAIN task = HoursOf(day_start)
        /\ DOMAIN hour_payloads = HoursOf(day_start)

AssignedOnce ==
    \/ hour_payloads' = hour_payloads
    \/ DOMAIN hour_payloads' = {}
    \/ \E h \in DOMAIN task :
          /\ pc = "collect"
          /\ h \notin DOMAIN hour_payloads
          /\ task[h].st = "running" /\ task'[h].st = "done"
          /\ DOMAIN hour_payloads' = DOMAIN hour_payloads \cup {h}
          /\ \A g \in DOMAIN hour_payloads : hour_payloads'[g] = hour_payloads[g]

C19_FanInBarrier == []BarrierPassed /\ [][AssignedOnce]_vars

C19_Witness ==
    /\ pc = "write_rows"
    /\ DOMAIN hour_payloads = HoursOf(day_start)
    /\ \E h \in DOMAIN task : task[h].raised
    /\ \E h \in DOMAIN task : hour_payloads[h] = GoodPayload(h)

\* C20: at most max(1, concurrency) requests are in flight at any time, all
\* of them for hours of the current day, the other calls being queued or
\* ended; every queued call is eventually started.
Ceiling == IF concurrency > 1 THEN concurrency ELSE 1

WithinCeiling ==
    /\ Cardinality(Running) <= Ceiling
    /\ Running \subseteq HoursOf(day_start)
    /\ \A h \in DOMAIN task : task[h].st \in {"queued", "running", "done"}
    /\ Running # {} => pc = "collect"

C20_ConcurrencyCeiling ==
    /\ []WithinCeiling
    /\ \A h \in AllHours : (h \in Queued) ~> (h \in Running)

C20_Witness ==
    /\ concurrency = 0
    /\ Cardinality(Running) = 1
    /\ Queued # {}
    /\ \E h \in Running : task[h].attempt > 0

\* C21: a day file committed while some of its hours had failed keeps lacking
\* their ticks in every later run without --force: the day is skipped, none
\* of those hours is requested, and only a run with --force gives the file
\* rows of such an hour.
HourOfRow(row) == row[1] \div MAX_MS_PER_HOUR

\* The hours of the day starting at d that have no row in the file f
HoursMissing(f, d) ==
    {h \in HoursOf(d) : \A i \in 2..Len(f.rows) : HourOfRow(f.rows[i]) # h}

LaterRunWithoutForce(d) == run > 1 /\ ~force /\ final0[d].exists

FailedStayMissing ==
    \A d \in DayStarts : LaterRunWithoutForce(d) =>
        /\ final[d] = final0[d]
        /\ \A h \in HoursMissing(final0[d], d) : h \notin requested

RecoveredOnlyByForce ==
    \A d \in DayStarts : \A h \in HoursOf(d) :
        (final[d].exists /\ h \in HoursMissing(final[d], d)
            /\ h \notin HoursMissing(final'[d], d)) => force

C21_FailedHoursNotRefetched == []FailedStayMissing /\ [][RecoveredOnlyByForce]_vars

C21_Witness ==
    /\ run > 1 /\ ~force /\ pc = "finished"
    /\ total_days >= 1
    /\ requested = {}
    /\ \E d \in DayStarts :
          /\ final0[d].complete
          /\ HoursMissing(final0[d], d) # {}
          /\ HoursMissing(final0[d], d) # HoursOf(d)
          /\ HoursMissing(final[d], d) = HoursMissing(final0[d], d)

\* C22: a failed write ends the run: the exception leaves main() after the
\* finally block, the process does nothing more (no request, no file, no
\* totals line), and no day after the failed one was touched; the days of a
\* run are taken one at a time, in ascending order, each at most once.
HaltedByWriteFailure ==
    /\ failed <=> pc = "raised"
    /\ failed =>
          /\ exit_status = 1
          /\ ~CleanupRemoves(tmp[day_start].exists, final[day_start].exists)
    /\ \A e \in DayStarts : e > day_start =>
          /\ final[e] = final0[e]
          /\ ~tmp[e].exists
          /\ requested \cap HoursOf(e) = {}
    /\ Queued \cup Running \subseteq HoursOf(day_start)
    /\ \A d \in DOMAIN seen : d <= day_start
    /\ pc = "day_loop" => day_start \notin DOMAIN seen

NothingAfterFailure ==
    pc = "raised" => UNCHANGED <<pc, requested, final, tmp, total_days, total_ticks>>

DaysAscending ==
    (run' = run /\ pc # "validate") => day_start' \in {day_start, day_start + HoursPerDay}

C22_WriteFailureHalts ==
    /\ []HaltedByWriteFailure
    /\ [][NothingAfterFailure /\ DaysAscending]_vars

C22_Witness ==
    /\ pc = "raised" /\ failed
    /\ day_start + HoursPerDay < end_inclusive
    /\ requested = HoursOf(day_start)
    /\ \E h \in HoursOf(day_start) : hour_payloads = NoTasks /\ h \in requested
    /\ ~tmp[day_start].exists
    /\ ~final[day_start + HoursPerDay].exists

\* C23: a run that reaches its last line reports as many days as the
\* inclusive range has, skipped or written, and as many ticks as the day
\* files written in this run have rows; the count of a written day is the sum
\* of the tick counts of its hours.
DaysInRange == (strptime(end_date) - strptime(start_date)) \div HoursPerDay + 1

DataRows(f) == Len(f.rows) - 1

WrittenDays == {d \in DOMAIN seen : force \/ ~seen[d].final.exists}

RECURSIVE SumDataRows(_)
SumDataRows(S) ==
    IF S = {} THEN 0
    ELSE LET d == CHOOSE x \in S : TRUE
         IN  DataRows(final[d]) + SumDataRows(S \ {d})

RECURSIVE SumHourCounts(_)
SumHourCounts(hs) ==
    IF hs = <<>> THEN 0
    ELSE Len(parse_ticks(Head(hs), hour_payloads[Head(hs)], SCALE_FACTOR_DEFAULT))
         + SumHourCounts(Tail(hs))

C23_RunTotals ==
    /\ pc = "finished" =>
          /\ total_days = DaysInRange
          /\ total_ticks = SumDataRows(WrittenDays)
          /\ \A d \in DOMAIN seen \ WrittenDays : final[d] = final0[d]
    /\ pc = "totals" =>
          /\ day_count = DataRows(final[day_start])
          /\ day_count = SumHourCounts(Sorted(DOMAIN hour_payloads))

C23_Witness ==
    /\ pc = "finished"
    /\ total_days = 2
    /\ \E d \in DOMAIN seen : d \notin WrittenDays /\ DataRows(final[d]) > 0
    /\ \E d \in WrittenDays : total_ticks = DataRows(final[d]) /\ total_ticks = 2

\* C24: an HTTP error other than 404 and 5xx ends download_hour with an
\* exception at once, whatever remains of the retry budget; main() then
\* stores an empty payload for the hour and prints one warning, as it does
\* for an hour whose retries are exhausted.
FailedHours == {h \in DOMAIN task : task[h].st = "done" /\ task[h].raised}

FailedAlike ==
    pc = "collect" =>
        \A h \in FailedHours :
            /\ task[h].last \in {"client_error", "transient"}
            /\ h \in DOMAIN hour_payloads
            /\ hour_payloads[h] = EmptyPayload
            /\ CopiesIn(<<"Failed", h>>, stderr) = 1

ClientErrorEndsCall ==
    \A h \in DOMAIN task :
        (h \in DOMAIN task' /\ task[h].st = "running" /\ task'[h] # task[h]
            /\ task'[h].last = "client_error") =>
            /\ task'[h].st = "done"
            /\ task'[h].raised
            /\ h \notin DOMAIN hour_payloads
            /\ hour_payloads'[h] = EmptyPayload
            /\ stderr' = stderr (+) SetToBag({<<"Failed", h>>})

C24_ClientErrorNotRetried == []FailedAlike /\ [][ClientErrorEndsCall]_vars

C24_Witness ==
    /\ pc = "collect"
    /\ retries > 0
    /\ \E h \in FailedHours : \E g \in FailedHours :
          /\ task[h].last = "client_error"
          /\ task[g].last = "transient"
          /\ hour_payloads[h] = hour_payloads[g]

====
